---- MODULE Spec2Model ----
(***************************************************************************)
(* Process lifecycle tracking of the Ludo game launcher:                   *)
(*   core/api/runner.py                  GameRunner                        *)
(*   core/plugins/runners/default_runner.py   DefaultRunner                *)
(*   core/plugins/runners/web_link_runner.py  WebLinkRunner                *)
(*   core/services/process_manager.py    ProcessManager                    *)
(*   widgets/components/play_button.py   PlayButton._create_command        *)
(* together with the behaviour of the QProcess objects the runners own.    *)
(*                                                                         *)
(* Python strings are sequences of one-character strings.  None is 0,      *)
(* both for a runner reference and for a QProcess reference.               *)
(***************************************************************************)
EXTENDS Integers, Sequences, FiniteSets, TLC

(* ----------------------------- bounds ---------------------------------- *)

\* number of run_game() calls in one behaviour
MaxRuns == 2

\* number of times one runner is registered by add_process
MaxSubs == 1

\* number of read errors a QProcess reports while its process runs
MaxIOErrors == 1

\* length of the launchOptions strings of the launch executions
MaxOptLen == 3

\* number of run_game() calls in one launch execution
MaxLaunches == 1

\* number of _run_process() calls of the PlayButton
MaxButtonRuns == 2

(* --------------------------- constants --------------------------------- *)

KILL_TIMEOUT == 5000

None == 0

(* ------------------------- Python strings ------------------------------ *)

EmptyStr == << >>

IsWhitespace(c) == c \in {" ", "\t", "\n", "\r"}

\* str.lower() on the characters the model uses
LowerChar(c) ==
    CASE c = "H" -> "h"
      [] c = "T" -> "t"
      [] c = "P" -> "p"
      [] c = "S" -> "s"
      [] c = "F" -> "f"
      [] c = "A" -> "a"
      [] c = "X" -> "x"
      [] c = "G" -> "g"
      [] c = "W" -> "w"
      [] OTHER -> c

Lower(s) == [i \in 1..Len(s) |-> LowerChar(s[i])]

RECURSIVE LStrip(_)
LStrip(s) == IF s # << >> /\ IsWhitespace(Head(s)) THEN LStrip(Tail(s)) ELSE s

RECURSIVE RStrip(_)
RStrip(s) ==
    IF s # << >> /\ IsWhitespace(s[Len(s)])
    THEN RStrip(SubSeq(s, 1, Len(s) - 1))
    ELSE s

\* str.strip()
Strip(s) == RStrip(LStrip(s))

\* str.startswith(prefix)
StartsWith(s, prefix) ==
    /\ Len(s) >= Len(prefix)
    /\ SubSeq(s, 1, Len(prefix)) = prefix

\* str.rfind(c) + 1 : index after the last c, 0 when c does not occur
RECURSIVE RFindNext(_, _, _)
RFindNext(s, c, i) ==
    IF i = 0 THEN 0
    ELSE IF s[i] = c THEN i
    ELSE RFindNext(s, c, i - 1)

\* str.rstrip("/")
RECURSIVE RStripSlash(_)
RStripSlash(s) ==
    IF s # << >> /\ s[Len(s)] = "/"
    THEN RStripSlash(SubSeq(s, 1, Len(s) - 1))
    ELSE s

\* posixpath.dirname
Dirname(p) ==
    LET i    == RFindNext(p, "/", Len(p))
        head == SubSeq(p, 1, i)
    IN  IF head # << >> /\ \E k \in 1..Len(head) : head[k] # "/"
        THEN RStripSlash(head)
        ELSE head

(* --------------------------- shlex.split ------------------------------- *)

IsQuote(c) == c \in {"'", "\""}

IsEscape(c) == c = "\\"

\* shlex.shlex.read_token in POSIX mode with whitespace_split, iterated to
\* the end of the input as shlex.split does.  st is the lexer state
\* ("ws" stands for ' ', "esc" for the escape character), esc the state to go
\* back to after an escape, tok the token under construction, q whether the
\* token had a quoted part, out the tokens read so far.
RECURSIVE ShlexScan(_, _, _, _, _, _, _)
ShlexScan(s, i, st, esc, tok, q, out) ==
    LET eof == i > Len(s)
        c   == s[i]
    IN  CASE st = "ws" ->
               IF eof THEN [ok |-> TRUE, tokens |-> out]
               ELSE IF IsWhitespace(c) THEN ShlexScan(s, i + 1, "ws", esc, tok, q, out)
               ELSE IF IsEscape(c) THEN ShlexScan(s, i + 1, "esc", "a", tok, q, out)
               ELSE IF IsQuote(c) THEN ShlexScan(s, i + 1, c, esc, tok, q, out)
               ELSE ShlexScan(s, i + 1, "a", esc, << c >>, q, out)
          [] IsQuote(st) ->
               IF eof THEN [ok |-> FALSE, tokens |-> << >>]
               ELSE IF c = st THEN ShlexScan(s, i + 1, "a", esc, tok, TRUE, out)
               ELSE IF IsEscape(c) /\ st = "\""
                    THEN ShlexScan(s, i + 1, "esc", st, tok, TRUE, out)
               ELSE ShlexScan(s, i + 1, st, esc, Append(tok, c), TRUE, out)
          [] st = "esc" ->
               IF eof THEN [ok |-> FALSE, tokens |-> << >>]
               ELSE IF IsQuote(esc) /\ ~IsEscape(c) /\ c # esc
                    THEN ShlexScan(s, i + 1, esc, esc, tok \o << "\\", c >>, q, out)
               ELSE ShlexScan(s, i + 1, esc, esc, Append(tok, c), q, out)
          [] OTHER ->
               IF eof THEN [ok |-> TRUE, tokens |-> Append(out, tok)]
               ELSE IF IsWhitespace(c)
                    THEN IF tok # << >> \/ q
                         THEN ShlexScan(s, i + 1, "ws", esc, << >>, FALSE, Append(out, tok))
                         ELSE ShlexScan(s, i + 1, "ws", esc, tok, q, out)
               ELSE IF IsQuote(c) THEN ShlexScan(s, i + 1, c, esc, tok, q, out)
               ELSE IF IsEscape(c) THEN ShlexScan(s, i + 1, "esc", "a", tok, q, out)
               ELSE ShlexScan(s, i + 1, "a", esc, Append(tok, c), q, out)

\* shlex.split(s): ok is FALSE when shlex raises ValueError
ShlexSplit(s) == ShlexScan(s, 1, "ws", "a", << >>, FALSE, << >>)

(* --------------------- DefaultRunner._create_command ------------------- *)

\* _create_command that takes the launch options, when there are any, as
\* the full command
_create_command_options_first(target_path, launch_options) ==
    IF launch_options # EmptyStr
    THEN LET sp == ShlexSplit(launch_options)
         IN  [ok |-> sp.ok, command |-> sp.tokens]
    ELSE IF target_path # EmptyStr
         THEN [ok |-> TRUE, command |-> << target_path >>]
         ELSE [ok |-> TRUE, command |-> << >>]

\* _create_command that puts the target first whether or not it is empty
_create_command_always_target(target_path, launch_options) ==
    IF launch_options # EmptyStr
    THEN LET sp == ShlexSplit(launch_options)
         IN  [ok |-> sp.ok, command |-> << target_path >> \o sp.tokens]
    ELSE [ok |-> TRUE, command |-> << target_path >>]

\* ok is FALSE when shlex.split raised
_create_command(target_path, launch_options) ==
    IF target_path # EmptyStr
    THEN IF launch_options # EmptyStr
         THEN LET sp == ShlexSplit(launch_options)
              IN  [ok |-> sp.ok, command |-> << target_path >> \o sp.tokens]
         ELSE [ok |-> TRUE, command |-> << target_path >>]
    ELSE IF launch_options # EmptyStr
         THEN LET sp == ShlexSplit(launch_options)
              IN  [ok |-> sp.ok, command |-> sp.tokens]
         ELSE [ok |-> TRUE, command |-> << >>]

(* --------------------- PlayButton._create_command ---------------------- *)

\* str.split(): the maximal runs of characters that are not whitespace
RECURSIVE SplitScan(_, _, _, _)
SplitScan(s, i, tok, out) ==
    IF i > Len(s) THEN (IF tok # << >> THEN Append(out, tok) ELSE out)
    ELSE IF IsWhitespace(s[i])
    THEN SplitScan(s, i + 1, << >>, IF tok # << >> THEN Append(out, tok) ELSE out)
    ELSE SplitScan(s, i + 1, Append(tok, s[i]), out)

Split(s) == SplitScan(s, 1, << >>, << >>)

\* ok is FALSE when _create_command raises ValueError
PlayButton_create_command(target_path, launch_options) ==
    IF target_path = EmptyStr /\ launch_options = EmptyStr
    THEN [ok |-> FALSE, command |-> << >>]
    ELSE [ok |-> TRUE,
          command |-> (IF target_path # EmptyStr THEN << target_path >> ELSE << >>)
                      \o (IF launch_options # EmptyStr THEN Split(launch_options) ELSE << >>)]

(* --------------------- WebLinkRunner._validate_url --------------------- *)

HttpPrefix == << "h", "t", "t", "p", ":", "/", "/" >>

HttpsPrefix == << "h", "t", "t", "p", "s", ":", "/", "/" >>

\* _validate_url that compares without lower()
_validate_url_case_sensitive(executablePath) ==
    LET target == Strip(executablePath)
    IN  StartsWith(target, HttpPrefix) \/ StartsWith(target, HttpsPrefix)

_validate_url(executablePath) ==
    LET target == Lower(Strip(executablePath))
    IN  StartsWith(target, HttpPrefix) \/ StartsWith(target, HttpsPrefix)

(* ------------------------- games and runners --------------------------- *)

\* The runner instances of one execution.  Runner 1 is a DefaultRunner of
\* game g1; runner 2 is a runner of either class for either game.
Runners == {1, 2}

Games == {"g1", "g2"}

RunnerTypes == {"DefaultRunner", "WebLinkRunner"}

FilePath == << "/", "g", "/", "x" >>

\* regular files of the file system (os.path.isfile): one named by an
\* absolute path, one in the current directory named by its bare name
Files == { FilePath, << "x" >> }

isfile(path) == path \in Files

\* executablePath, launchOptions and workingDirectory of Game, as the
\* values run_game reads from game_data
GameConfigs ==
    << [executablePath   |-> FilePath,
        launchOptions    |-> EmptyStr,
        workingDirectory |-> EmptyStr],
       [executablePath   |-> EmptyStr,
        launchOptions    |-> EmptyStr,
        workingDirectory |-> EmptyStr],
       [executablePath   |-> EmptyStr,
        launchOptions    |-> << "x", " ", "-", "a" >>,
        workingDirectory |-> EmptyStr],
       [executablePath   |-> << " ", "H", "t", "t", "p", ":", "/", "/", "a" >>,
        launchOptions    |-> EmptyStr,
        workingDirectory |-> << "/", "w" >>] >>

ConfigIds == 1..Len(GameConfigs)

\* Game records of the launch executions: every launchOptions string of up
\* to MaxOptLen characters over OptChars, with targets that are empty, an
\* existing file with and without a directory part, a missing file, and
\* URLs with and without an http or https scheme
OptChars == { "x", " ", "'", "\"", "\\" }

LaunchOptions == UNION { [1..k -> OptChars] : k \in 0..MaxOptLen }

LaunchTargets ==
    { EmptyStr,
      FilePath,
      << "x" >>,
      << "/", "g", "/", "y" >>,
      << " ", "H", "t", "t", "p", ":", "/", "/", "a" >>,
      << "h", "t", "t", "p", "s", ":", "/", "/", "a" >>,
      << "H", "T", "T", "P", "S", ":", "/", "/", "A", "\n" >>,
      << "f", "t", "p", ":", "/", "/", "a" >>,
      << "h", "t", "t", "p", ":", "/", "a" >>,
      << "x", "h", "t", "t", "p", ":", "/", "/", "a" >> }

LaunchGames ==
    [executablePath   : LaunchTargets,
     launchOptions    : LaunchOptions,
     workingDirectory : { EmptyStr, << "/", "w" >> }]

\* how an OS process ends: QProcess exitStatus and exitCode
ExitOutcomes ==
    { [status |-> "NormalExit", code |-> 0],
      [status |-> "NormalExit", code |-> 1],
      [status |-> "CrashExit", code |-> 1] }

Runs == 1..MaxRuns

(* ------------------------------ state ---------------------------------- *)

VARIABLES
    DETACHED_MODE,  \* default_runner.DETACHED_MODE: the module sets it to False;
                    \*   an execution runs with one value of it throughout
    rtype,          \* runner -> its class
    rgame,          \* runner -> runner.game_data.id
    game_data,      \* the Game records a run_game call may find in
                    \*   runner.game_data: executablePath, launchOptions and
                    \*   workingDirectory
    processes,      \* ProcessManager._processes: game id -> runner, None when absent
    subs,           \* runner -> number of add_process registrations that connected
                    \*   its game_stopped / error_occurred to remove_process
    handle,         \* DefaultRunner._process: runner -> QProcess of a run, or None
    runs,           \* run -> the run_game call, its QProcess and the signals
                    \*   the runner emitted for it
    nruns,          \* number of run_game calls made
    ret             \* for a step that is an add_process or a stop_game call:
                    \*   the operation, the runner it was called on, what it
                    \*   returned and, for stop_game, the QProcess the runner
                    \*   held at the call.  For ProcessManager.stop_game the
                    \*   runner is the one get_runner found, None when the
                    \*   game id is not tracked.

\* The PlayButton widget (widgets/components/play_button.py)
VARIABLES
    button_detached,    \* play_button.DETACHED_MODE (CONFIG.LAUNCH_PROCESS_DETACHED)
    game_list_manager,  \* whether the button was given a game_list_manager
    game_info,          \* the game shown: game_id, file_path, launch_options
                        \*   and folder_path as update_game_info set them
    button_processes,   \* PlayButton._processes: game id -> its _run_process
                        \*   call, None when absent
    launches,           \* _run_process call -> its QProcess and the
                        \*   last-played updates made for it
    nlaunches,          \* number of _run_process calls made
    label,              \* what _update_state shows: "Play", "Stop" or
                        \*   "NotReady"
    press               \* for a step that is a mousePressEvent: the branch
                        \*   taken ("stop", "run", "error", "none")

buttonVars == << button_detached, game_list_manager, game_info, button_processes,
                 launches, nlaunches, label, press >>

runnerVars == << DETACHED_MODE, rtype, rgame, game_data, processes, subs, handle,
                runs, nruns, ret >>

vars == << runnerVars, buttonVars >>

\* A run_game call that has not been made yet.
\*   qstate     QProcess.state(): "NoProcess" when the call created no QProcess
\*   alive      the OS process of the QProcess exists
\*   exitStatus, exitCode   how the OS process ended
\*   terminateSent, killSent   QProcess.terminate() / kill() were called
\*   oscall     the OS interaction of the call
\*   sigs       signals emitted by the runner, in order
\*   nLaunch    number of signals emitted before run_game returned
NoRun ==
    [runner        |-> None,
     qstate        |-> "NoProcess",
     alive         |-> FALSE,
     exitStatus    |-> "none",
     exitCode      |-> 0,
     terminateSent |-> FALSE,
     killSent      |-> FALSE,
     oscall        |-> "none",
     sigs          |-> << >>,
     nLaunch       |-> 0]

RunnerType(r) == rtype[r]

\* runner.game_data.id
GameId(r) == rgame[r]

\* The program state the handlers work on.
Cur == [processes |-> processes, subs |-> subs, handle |-> handle, runs |-> runs]

Install(s) ==
    /\ processes' = s.processes
    /\ subs' = s.subs
    /\ handle' = s.handle
    /\ runs' = s.runs

\* the runners and the ProcessManager after construction
Constructed ==
    /\ DETACHED_MODE \in BOOLEAN
    /\ rtype \in [Runners -> RunnerTypes]
    /\ rgame \in [Runners -> Games]
    /\ rtype[1] = "DefaultRunner"
    /\ rgame[1] = "g1"
    /\ processes = [g \in Games |-> None]
    /\ subs = [r \in Runners |-> 0]
    /\ handle = [r \in Runners |-> None]
    /\ runs = [p \in Runs |-> NoRun]
    /\ nruns = 0
    /\ ret = [op |-> "init", r |-> None, val |-> "None", p |-> None]

\* The game_info of a button: NoGameInfo is what update_game_info(None)
\* leaves; the others are games with a target, with nothing to launch, and
\* with launch options that are blank.
NoGameInfo ==
    [id |-> "", executablePath |-> EmptyStr, launchOptions |-> EmptyStr,
     workingDirectory |-> EmptyStr]

ButtonGames ==
    [id               : Games,
     executablePath   : { EmptyStr, FilePath },
     launchOptions    : { EmptyStr, << " " >> },
     workingDirectory : { EmptyStr }]

\* A _run_process call that has not been made yet.
\*   game        the game_id of the call
\*   qstate, alive, exitStatus, exitCode, terminateSent, killSent as in NoRun
\*   spawn       "ok" when the OS started the process, "failed" when it did
\*               not, "none" when the call did not get that far
\*   lastPlayed  number of update_last_played calls made for the launch
NoLaunch ==
    [game          |-> "",
     qstate        |-> "NoProcess",
     alive         |-> FALSE,
     exitStatus    |-> "none",
     exitCode      |-> 0,
     terminateSent |-> FALSE,
     killSent      |-> FALSE,
     spawn         |-> "none",
     lastPlayed    |-> 0]

ButtonRuns == 1..MaxButtonRuns

\* What a PlayButton is given as game_list_manager: nothing (the context
\* menu), the GameListManager model (the title bar), or an object that has
\* update_last_played, as GameManager has.
ManagerKinds == { "None", "GameListManager", "GameManager" }

HasUpdateLastPlayed(m) == m = "GameManager"

\* PlayButton.__init__ with game_info None
ButtonConstructed ==
    /\ button_detached \in BOOLEAN
    /\ game_list_manager \in ManagerKinds
    /\ game_info = NoGameInfo
    /\ button_processes = [g \in Games |-> None]
    /\ launches = [l \in ButtonRuns |-> NoLaunch]
    /\ nlaunches = 0
    /\ label = "NotReady"
    /\ press = "init"

\* the title bar's button, managed mode; the executions of Spec, FairSpec
\* and LaunchSpec leave it alone
ButtonUnused ==
    /\ ButtonConstructed
    /\ ~button_detached
    /\ game_list_manager = "GameListManager"

Init ==
    /\ Constructed
    /\ ButtonUnused
    /\ game_data = { GameConfigs[c] : c \in ConfigIds }

(* ----------------------------- GameRunner ------------------------------ *)

\* GameRunner.can_stop, overridden by DefaultRunner
can_stop(r) ==
    IF RunnerType(r) = "DefaultRunner" THEN ~DETACHED_MODE ELSE FALSE

\* Python values returned by the calls: "True", "False", "None", or
\* "NotImplementedError" when the method of the base class raises
Bool(b) == IF b THEN "True" ELSE "False"

\* self._process is not None and self._process.state() == QProcess.Running
ProcessRunning(s, r) ==
    s.handle[r] # None /\ s.runs[s.handle[r]].qstate = "Running"

\* is_running(); WebLinkRunner inherits GameRunner.is_running
is_running(s, r) ==
    IF RunnerType(r) = "DefaultRunner"
    THEN IF DETACHED_MODE THEN "False" ELSE Bool(ProcessRunning(s, r))
    ELSE "NotImplementedError"

(* --------------------------- ProcessManager ---------------------------- *)

\* remove_process that drops every entry
remove_process_all(procs, game_id) ==
    IF procs[game_id] # None THEN [g \in Games |-> None] ELSE procs

remove_process(procs, game_id) ==
    IF procs[game_id] # None THEN [procs EXCEPT ![game_id] = None] ELSE procs

\* the n connections a runner has to remove_process(game_id), called in turn
RECURSIVE RemoveTimes(_, _, _)
RemoveTimes(procs, game_id, n) ==
    IF n = 0 THEN procs ELSE RemoveTimes(remove_process(procs, game_id), game_id, n - 1)

get_runner(s, game_id) == s.processes[game_id]

\* add_process without the can_stop() test
add_process_any(s, r) ==
    IF s.processes[GameId(r)] # None THEN s
    ELSE [s EXCEPT !.processes[GameId(r)] = r, !.subs[r] = @ + 1]

\* add_process without the "already tracked" return
add_process_overwrite(s, r) ==
    IF ~can_stop(r) THEN s
    ELSE [s EXCEPT !.processes[GameId(r)] = r, !.subs[r] = @ + 1]

add_process(s, r) ==
    IF ~can_stop(r) THEN s
    ELSE IF s.processes[GameId(r)] # None THEN s
    ELSE [s EXCEPT !.processes[GameId(r)] = r, !.subs[r] = @ + 1]

\* ProcessManager.is_running
pm_is_running(s, game_id) ==
    LET runner == get_runner(s, game_id)
    IN  IF runner # None THEN is_running(s, runner) ELSE "False"

(* ------------------------------ signals -------------------------------- *)

\* Signal.emit when add_process connects game_stopped only
Emit_stopped_only(s, r, p, name, arg) ==
    LET s1 == [s EXCEPT !.runs[p].sigs = Append(@, [name |-> name, arg |-> arg])]
    IN  IF name = "game_stopped"
        THEN [s1 EXCEPT !.processes = RemoveTimes(@, GameId(r), s.subs[r])]
        ELSE s1

\* Signal.emit: the signal is recorded and the connected slots run.  The
\* slots are the lambdas of ProcessManager.add_process.
Emit(s, r, p, name, arg) ==
    LET s1 == [s EXCEPT !.runs[p].sigs = Append(@, [name |-> name, arg |-> arg])]
    IN  IF name \in {"game_stopped", "error_occurred"}
        THEN [s1 EXCEPT !.processes = RemoveTimes(@, GameId(r), s.subs[r])]
        ELSE s1

\* error_map of DefaultRunner._on_process_error
error_map(error_code) ==
    CASE error_code = "FailedToStart" -> "Failed to start."
      [] error_code = "Crashed" -> "Crashed."
      [] error_code = "Timedout" -> "Timed out."
      [] error_code = "WriteError" -> "Write error."
      [] error_code = "ReadError" -> "Read error."
      [] OTHER -> "Unknown error."

_on_process_error(s, p, error_code) ==
    Emit(s, s.runs[p].runner, p, "error_occurred", error_map(error_code))

\* _on_process_finished that keeps the process handle
_on_process_finished_keep_handle(s, p, exit_code) ==
    Emit(s, s.runs[p].runner, p, "game_stopped", exit_code)

\* _on_process_finished that emits game_stopped for each of two connections
_on_process_finished_twice(s, p, exit_code) ==
    LET r == s.runs[p].runner
        s1 == Emit([s EXCEPT !.handle[r] = None], r, p, "game_stopped", exit_code)
    IN  Emit(s1, r, p, "game_stopped", exit_code)

_on_process_finished(s, p, exit_code) ==
    LET r == s.runs[p].runner
    IN  Emit([s EXCEPT !.handle[r] = None], r, p, "game_stopped", exit_code)

\* QProcess, when it finds that its OS process has ended: the state becomes
\* NotRunning, errorOccurred(Crashed) is emitted after a crash exit and then
\* finished(exitCode, exitStatus); the slots are those connected by run_game.
QProcessFinished(s, p) ==
    LET s1 == [s EXCEPT !.runs[p].qstate = "NotRunning"]
        s2 == IF s.runs[p].exitStatus = "CrashExit"
              THEN _on_process_error(s1, p, "Crashed")
              ELSE s1
    IN  _on_process_finished(s2, p, s.runs[p].exitCode)

(* ------------------------ DefaultRunner.run_game ----------------------- *)

\* the except clause of run_game: error_occurred.emit(str(e))
LaunchError(s, r, p, msg) == Emit(s, r, p, "error_occurred", msg)

\* working_dir of run_game; EmptyStr when none could be determined
WorkingDir(cfg, target) ==
    IF cfg.workingDirectory # EmptyStr
    THEN cfg.workingDirectory
    ELSE IF isfile(target) THEN Dirname(target) ELSE EmptyStr

\* run_game that handles the end of a short-lived process while it waits
\* for the start, before it emits game_started
DefaultRunGame_early_finish(s, r, p, cfg, spawnOk) ==
    LET s1 == [s EXCEPT !.handle[r] = p, !.runs[p].oscall = "start",
                        !.runs[p].qstate = "NotRunning",
                        !.runs[p].exitStatus = "NormalExit"]
    IN  IF spawnOk /\ ~DETACHED_MODE
        THEN Emit(_on_process_finished(s1, p, 0), r, p, "game_started", "")
        ELSE LaunchError(s1, r, p, "Failed to start the process.")

\* run_game that does not look at the result of waitForStarted
DefaultRunGame_ignore_start_failure(s, r, p, cfg, spawnOk) ==
    LET s1 == [s EXCEPT !.handle[r] = p, !.runs[p].oscall = "start",
                        !.runs[p].qstate = "NotRunning"]
    IN  IF ~spawnOk /\ ~DETACHED_MODE
        THEN Emit(_on_process_error(s1, p, "FailedToStart"), r, p, "game_started", "")
        ELSE Emit([s1 EXCEPT !.runs[p].qstate = "Running", !.runs[p].alive = TRUE],
                  r, p, "game_started", "")

\* run_game of DefaultRunner r as run p on game data cfg; spawnOk tells
\* whether the OS starts the process (startDetached succeeds, or
\* waitForStarted returns True).  A start that fails makes the QProcess emit
\* errorOccurred(FailedToStart) before waitForStarted returns False.
DefaultRunGame(s, r, p, cfg, spawnOk) ==
    LET cc == _create_command(cfg.executablePath, cfg.launchOptions)
    IN  IF ~cc.ok THEN LaunchError(s, r, p, "No closing quotation")
        ELSE IF cc.command = << >>
        THEN LaunchError(s, r, p, "No valid command provided to run the game.")
        ELSE IF WorkingDir(cfg, cc.command[1]) = EmptyStr
        THEN LaunchError(s, r, p, "No working directory could be determined.")
        ELSE
        LET s1 == [s EXCEPT !.handle[r] = p, !.runs[p].qstate = "NotRunning"]
        IN  IF DETACHED_MODE
            THEN LET s2 == [s1 EXCEPT !.runs[p].oscall = "startDetached"]
                 IN  IF ~spawnOk
                     THEN LaunchError(s2, r, p, "Failed to start detached process.")
                     ELSE Emit(s2, r, p, "game_started", "")
            ELSE LET s2 == [s1 EXCEPT !.runs[p].oscall = "start"]
                 IN  IF ~spawnOk
                     THEN LaunchError(_on_process_error(s2, p, "FailedToStart"),
                                      r, p, "Failed to start the process.")
                     ELSE Emit([s2 EXCEPT !.runs[p].qstate = "Running",
                                          !.runs[p].alive = TRUE],
                               r, p, "game_started", "")

(* ------------------------ WebLinkRunner.run_game ----------------------- *)

\* openOk is FALSE when webbrowser.open raises
WebLinkRunGame(s, r, p, cfg, openOk) ==
    IF ~_validate_url(cfg.executablePath)
    THEN Emit(s, r, p, "error_occurred", "Invalid URL")
    ELSE LET s1 == [s EXCEPT !.runs[p].oscall = "webbrowser.open"]
         IN  IF openOk
             THEN Emit(s1, r, p, "game_started", "")
             ELSE Emit(s1, r, p, "error_occurred", "webbrowser error")

RunGame(s, r, p, cfg, ok) ==
    LET s0 == [s EXCEPT !.runs[p].runner = r]
        s1 == IF RunnerType(r) = "DefaultRunner"
              THEN DefaultRunGame(s0, r, p, cfg, ok)
              ELSE WebLinkRunGame(s0, r, p, cfg, ok)
    IN  [s1 EXCEPT !.runs[p].nLaunch = Len(s1.runs[p].sigs)]

(* ------------------------ DefaultRunner.stop_game ---------------------- *)

\* the OS process of run p ends
ProcessEnds(s, p, out) ==
    [s EXCEPT !.runs[p].alive = FALSE,
              !.runs[p].exitStatus = out.status,
              !.runs[p].exitCode = out.code]

\* QProcess.waitForFinished(msecs) on a running QProcess whose OS process,
\* when still alive, ends delay ms from now with outcome out.  Within msecs
\* the QProcess finds the process ended and emits its signals.
waitForFinished(s, p, msecs, delay, out) ==
    IF ~s.runs[p].alive
    THEN [finished |-> TRUE, s |-> QProcessFinished(s, p)]
    ELSE IF delay <= msecs
    THEN [finished |-> TRUE, s |-> QProcessFinished(ProcessEnds(s, p, out), p)]
    ELSE [finished |-> FALSE, s |-> s]

\* stop_game that gives up after the kill timeout
DefaultStopGame_no_kill(s, r, delay, out) ==
    LET h == s.handle[r]
    IN  IF ProcessRunning(s, r)
        THEN LET s1 == [s EXCEPT !.runs[h].terminateSent = TRUE]
             IN  [val |-> "True", s |-> waitForFinished(s1, h, KILL_TIMEOUT, delay, out).s]
        ELSE [val |-> "False", s |-> s]

\* stop_game that reports a stop attempt whether or not a process runs
DefaultStopGame_always_true(s, r, delay, out) ==
    LET h == s.handle[r]
    IN  IF ProcessRunning(s, r)
        THEN LET s1 == [s EXCEPT !.runs[h].terminateSent = TRUE]
                 w  == waitForFinished(s1, h, KILL_TIMEOUT, delay, out)
             IN  IF ~w.finished
                 THEN [val |-> "True", s |-> [w.s EXCEPT !.runs[h].killSent = TRUE]]
                 ELSE [val |-> "True", s |-> w.s]
        ELSE [val |-> "True", s |-> s]

DefaultStopGame(s, r, delay, out) ==
    LET h == s.handle[r]
    IN  IF ProcessRunning(s, r)
        THEN LET s1 == [s EXCEPT !.runs[h].terminateSent = TRUE]
                 w  == waitForFinished(s1, h, KILL_TIMEOUT, delay, out)
             IN  IF ~w.finished
                 THEN [val |-> "True", s |-> [w.s EXCEPT !.runs[h].killSent = TRUE]]
                 ELSE [val |-> "True", s |-> w.s]
        ELSE [val |-> "False", s |-> s]

\* stop_game of any runner; WebLinkRunner inherits GameRunner.stop_game
StopGame(s, r, delay, out) ==
    IF RunnerType(r) = "DefaultRunner"
    THEN DefaultStopGame(s, r, delay, out)
    ELSE [val |-> "NotImplementedError", s |-> s]

\* ProcessManager.stop_game calling stop_game on the runner of the game id,
\* registered or not
pm_stop_game_unregistered(s, game_id, delay, out) ==
    IF \E r \in Runners : GameId(r) = game_id
    THEN StopGame(s, CHOOSE r \in Runners : GameId(r) = game_id, delay, out).s
    ELSE s

\* ProcessManager.stop_game
pm_stop_game(s, game_id, delay, out) ==
    LET runner == get_runner(s, game_id)
    IN  IF runner # None
        THEN StopGame(s, runner, delay, out).s
        ELSE s

\* time a process takes to end after terminate()
ExitDelays == {0, KILL_TIMEOUT + 1}

\* number of signals name(arg) in a signal log
RECURSIVE CountSig(_, _, _)
CountSig(sigs, name, arg) ==
    IF sigs = << >> THEN 0
    ELSE (IF Head(sigs).name = name /\ Head(sigs).arg = arg THEN 1 ELSE 0)
         + CountSig(Tail(sigs), name, arg)

(* ------------------------------ actions -------------------------------- *)

\* what the steps of the runners and the ProcessManager leave alone
fixed == << DETACHED_MODE, rtype, rgame, game_data, buttonVars >>

\* ret after a step that is none of the recorded calls
NoResult == [op |-> "other", r |-> None, val |-> "None", p |-> None]

AddProcess(r) ==
    /\ (can_stop(r) /\ processes[GameId(r)] = None) => subs[r] < MaxSubs
    /\ Install(add_process(Cur, r))
    /\ ret' = [op |-> "add_process", r |-> r, val |-> "None", p |-> None]
    /\ UNCHANGED << fixed, nruns >>

RemoveProcess(g) ==
    /\ processes' = remove_process(processes, g)
    /\ ret' = NoResult
    /\ UNCHANGED << fixed, subs, handle, runs, nruns >>

RunGameCall(r) ==
    /\ nruns < MaxRuns
    /\ \E cfg \in game_data, ok \in BOOLEAN :
          Install(RunGame(Cur, r, nruns + 1, cfg, ok))
    /\ nruns' = nruns + 1
    /\ ret' = NoResult
    /\ UNCHANGED fixed

StopGameCall(r) ==
    /\ \E delay \in ExitDelays, out \in ExitOutcomes :
          LET res == StopGame(Cur, r, delay, out)
          IN  /\ Install(res.s)
              /\ ret' = [op |-> "stop_game", r |-> r, val |-> res.val, p |-> handle[r]]
    /\ UNCHANGED << fixed, nruns >>

\* ProcessManager.stop_game
PMStopGame(g) ==
    /\ \E delay \in ExitDelays, out \in ExitOutcomes :
          Install(pm_stop_game(Cur, g, delay, out))
    /\ ret' = [op |-> "pm_stop_game", r |-> get_runner(Cur, g), val |-> "None", p |-> None]
    /\ UNCHANGED << fixed, nruns >>

\* the OS process of a running QProcess ends (exit, crash, or signal)
ProcessExits(p) ==
    /\ runs[p].qstate = "Running"
    /\ runs[p].alive
    /\ \E out \in ExitOutcomes : runs' = ProcessEnds(Cur, p, out).runs
    /\ ret' = NoResult
    /\ UNCHANGED << fixed, processes, subs, handle, nruns >>

\* the event loop lets the QProcess find that its process has ended
ProcessFinishedEvent(p) ==
    /\ runs[p].qstate = "Running"
    /\ ~runs[p].alive
    /\ Install(QProcessFinished(Cur, p))
    /\ ret' = NoResult
    /\ UNCHANGED << fixed, nruns >>

\* the QProcess fails to read the output of its running process
ProcessReadError(p) ==
    /\ runs[p].qstate = "Running"
    /\ CountSig(runs[p].sigs, "error_occurred", error_map("ReadError")) < MaxIOErrors
    /\ Install(_on_process_error(Cur, p, "ReadError"))
    /\ ret' = NoResult
    /\ UNCHANGED << fixed, nruns >>

Next ==
    \/ \E r \in Runners : AddProcess(r)
    \/ \E g \in Games : RemoveProcess(g)
    \/ \E r \in Runners : RunGameCall(r)
    \/ \E r \in Runners : StopGameCall(r)
    \/ \E g \in Games : PMStopGame(g)
    \/ \E p \in Runs : ProcessExits(p)
    \/ \E p \in Runs : ProcessFinishedEvent(p)
    \/ \E p \in Runs : ProcessReadError(p)

Spec == Init /\ [][Next]_vars

\* the OS ends a process that was sent kill
KilledProcessExits(p) == runs[p].killSent /\ ProcessExits(p)

\* The event loop keeps running, so a QProcess whose process has ended
\* eventually reports it; the OS eventually ends a killed process.
Fairness ==
    \A p \in Runs :
        /\ WF_vars(ProcessFinishedEvent(p))
        /\ WF_vars(KilledProcessExits(p))

\* Executions with two managed DefaultRunners of the same game.
FairInit ==
    /\ Init
    /\ ~DETACHED_MODE
    /\ rtype[2] = "DefaultRunner"
    /\ rgame[2] = "g1"

FairSpec == FairInit /\ [][Next]_vars /\ Fairness

\* Launch executions: the runners hold one Game of LaunchGames and are run
\* MaxLaunches times.
LaunchInit ==
    /\ Constructed
    /\ ButtonUnused
    /\ rgame[2] = "g1"
    /\ \E g \in LaunchGames : game_data = { g }

LaunchNext ==
    /\ nruns < MaxLaunches
    /\ \E r \in Runners : RunGameCall(r)

LaunchSpec == LaunchInit /\ [][LaunchNext]_vars

(* ------------------------------ PlayButton ----------------------------- *)

\* The button state the handlers work on.
CurButton ==
    [processes |-> button_processes, launches |-> launches,
     game_info |-> game_info, label |-> label]

InstallButton(b) ==
    /\ button_processes' = b.processes
    /\ launches' = b.launches
    /\ game_info' = b.game_info
    /\ label' = b.label

\* game_id in self._processes
Tracked(b, game_id) == game_id \in Games /\ b.processes[game_id] # None

_can_run(b, game_id, target_path, launch_options) ==
    IF button_detached
    THEN target_path # EmptyStr \/ launch_options # EmptyStr
    ELSE IF Tracked(b, game_id) /\ b.launches[b.processes[game_id]].qstate = "Running"
    THEN FALSE
    ELSE target_path # EmptyStr \/ launch_options # EmptyStr

_update_state(enabled, running) ==
    IF button_detached /\ enabled THEN "Play"
    ELSE IF running THEN "Stop"
    ELSE IF enabled THEN "Play"
    ELSE "NotReady"

update_game_info(b, info) ==
    LET running == Tracked(b, info.id) /\ ~button_detached
        can_run == _can_run(b, info.id, info.executablePath, info.launchOptions)
    IN  [b EXCEPT !.game_info = info, !.label = _update_state(can_run, running)]

\* _on_process_finished that looks only at the game shown by the button
PlayButton_on_process_finished_shown(b, game_id) ==
    IF ~Tracked(b, game_id) \/ game_id # b.game_info.id THEN b
    ELSE update_game_info([b EXCEPT !.processes[game_id] = None], b.game_info)

\* PlayButton._on_process_finished
PlayButton_on_process_finished(b, game_id) ==
    IF ~Tracked(b, game_id) THEN b
    ELSE update_game_info([b EXCEPT !.processes[game_id] = None], b.game_info)

\* The QProcess of launch l finds that its OS process has ended: the state
\* becomes NotRunning, errorOccurred(Crashed) goes to _on_process_error,
\* which prints, and finished goes to the lambda connected by _run_process.
ButtonProcessFinished(b, l) ==
    PlayButton_on_process_finished([b EXCEPT !.launches[l].qstate = "NotRunning"],
                                   b.launches[l].game)

\* the OS process of launch l ends
ButtonProcessEnds(b, l, out) ==
    [b EXCEPT !.launches[l].alive = FALSE,
              !.launches[l].exitStatus = out.status,
              !.launches[l].exitCode = out.code]

\* QProcess.waitForFinished(msecs) in _stop_process
ButtonWaitForFinished(b, l, msecs, delay, out) ==
    IF ~b.launches[l].alive
    THEN [finished |-> TRUE, b |-> ButtonProcessFinished(b, l)]
    ELSE IF delay <= msecs
    THEN [finished |-> TRUE, b |-> ButtonProcessFinished(ButtonProcessEnds(b, l, out), l)]
    ELSE [finished |-> FALSE, b |-> b]

\* _stop_process that kills at once
_stop_process_kill_first(b, game_id, delay, out) ==
    IF Tracked(b, game_id) /\ b.launches[b.processes[game_id]].qstate = "Running"
    THEN [b EXCEPT !.launches[b.processes[game_id]].killSent = TRUE]
    ELSE b

_stop_process(b, game_id, delay, out) ==
    IF Tracked(b, game_id)
    THEN LET l == b.processes[game_id]
         IN  IF b.launches[l].qstate = "Running"
             THEN LET b1 == [b EXCEPT !.launches[l].terminateSent = TRUE]
                      w  == ButtonWaitForFinished(b1, l, KILL_TIMEOUT, delay, out)
                  IN  IF ~w.finished
                      THEN [w.b EXCEPT !.launches[l].killSent = TRUE]
                      ELSE w.b
             ELSE b
    ELSE b

\* self._game_list_manager.update_last_played(...) inside its try: on an
\* object without that method the attribute lookup raises, the except clause
\* prints, and nothing is invoked
UpdateLastPlayed(b, l) ==
    IF HasUpdateLastPlayed(game_list_manager)
    THEN [b EXCEPT !.launches[l].lastPlayed = @ + 1]
    ELSE b

\* _run_process that updates last-played before it starts the process
_run_process_update_first(b, game_id, command, l, spawnOk) ==
    LET b0 == UpdateLastPlayed([b EXCEPT !.launches[l].game = game_id], l)
    IN  IF command = << >> THEN b0
        ELSE IF ~spawnOk THEN [b0 EXCEPT !.launches[l].spawn = "failed"]
        ELSE IF button_detached THEN [b0 EXCEPT !.launches[l].spawn = "ok"]
        ELSE [b0 EXCEPT !.launches[l].spawn = "ok",
                        !.launches[l].qstate = "Running",
                        !.launches[l].alive = TRUE,
                        !.processes[game_id] = l]

\* _run_process as launch l; spawnOk tells whether the OS starts the process.
\* command[0] of an empty command raises inside the try, as does a failed
\* start; the except clause prints.
_run_process(b, game_id, command, l, spawnOk) ==
    LET b0 == [b EXCEPT !.launches[l].game = game_id]
    IN  IF command = << >> THEN b0
        ELSE IF button_detached
        THEN IF ~spawnOk
             THEN [b0 EXCEPT !.launches[l].spawn = "failed"]
             ELSE UpdateLastPlayed([b0 EXCEPT !.launches[l].spawn = "ok"], l)
        ELSE IF ~spawnOk
             THEN [b0 EXCEPT !.launches[l].spawn = "failed",
                             !.launches[l].qstate = "NotRunning"]
             ELSE UpdateLastPlayed([b0 EXCEPT !.launches[l].spawn = "ok",
                                              !.launches[l].qstate = "Running",
                                              !.launches[l].alive = TRUE,
                                              !.processes[game_id] = l], l)

\* the branch mousePressEvent takes
PressBranch(b) ==
    LET info == b.game_info
    IN  IF Tracked(b, info.id) /\ ~button_detached THEN "stop"
        ELSE IF ~_can_run(b, info.id, info.executablePath, info.launchOptions) THEN "none"
        ELSE IF ~PlayButton_create_command(info.executablePath, info.launchOptions).ok
        THEN "error"
        ELSE "run"

\* mousePressEvent that launches whenever the game can run
mousePressEvent_run_first(b, l, spawnOk, delay, out) ==
    LET info == b.game_info
    IN  IF _can_run(b, info.id, info.executablePath, info.launchOptions)
           \/ (Tracked(b, info.id) /\ b.launches[b.processes[info.id]].killSent)
        THEN update_game_info(
                 _run_process(b, info.id,
                              PlayButton_create_command(info.executablePath,
                                                        info.launchOptions).command,
                              l, spawnOk), info)
        ELSE IF Tracked(b, info.id) /\ ~button_detached
        THEN update_game_info(_stop_process(b, info.id, delay, out), info)
        ELSE b

mousePressEvent(b, l, spawnOk, delay, out) ==
    LET info   == b.game_info
        branch == PressBranch(b)
    IN  IF branch = "stop"
        THEN update_game_info(_stop_process(b, info.id, delay, out), info)
        ELSE IF branch = "run"
        THEN update_game_info(
                 _run_process(b, info.id,
                              PlayButton_create_command(info.executablePath,
                                                        info.launchOptions).command,
                              l, spawnOk), info)
        ELSE b

(* the button's steps *)

\* GameInfoWidget shows another game: play_button.update_game_info(game_info)
UpdateGameInfo(info) ==
    /\ InstallButton(update_game_info(CurButton, info))
    /\ press' = "other"
    /\ UNCHANGED << runnerVars, button_detached, game_list_manager, nlaunches >>

\* a click on the button
MousePress ==
    /\ PressBranch(CurButton) = "run" => nlaunches < MaxButtonRuns
    /\ \E spawnOk \in BOOLEAN, delay \in ExitDelays, out \in ExitOutcomes :
          InstallButton(mousePressEvent(CurButton, nlaunches + 1, spawnOk, delay, out))
    /\ nlaunches' = IF PressBranch(CurButton) = "run" THEN nlaunches + 1 ELSE nlaunches
    /\ press' = PressBranch(CurButton)
    /\ UNCHANGED << runnerVars, button_detached, game_list_manager >>

\* the OS process of a launch ends (exit, crash, or signal)
ButtonProcessExits(l) ==
    /\ launches[l].qstate = "Running"
    /\ launches[l].alive
    /\ \E out \in ExitOutcomes : launches' = ButtonProcessEnds(CurButton, l, out).launches
    /\ press' = "other"
    /\ UNCHANGED << runnerVars, button_detached, game_list_manager, game_info,
                    button_processes, nlaunches, label >>

\* the event loop lets the QProcess of a launch find that its process ended
ButtonFinishedEvent(l) ==
    /\ launches[l].qstate = "Running"
    /\ ~launches[l].alive
    /\ InstallButton(ButtonProcessFinished(CurButton, l))
    /\ press' = "other"
    /\ UNCHANGED << runnerVars, button_detached, game_list_manager, nlaunches >>

ButtonNext ==
    \/ \E info \in ButtonGames : UpdateGameInfo(info)
    \/ MousePress
    \/ \E l \in ButtonRuns : ButtonProcessExits(l)
    \/ \E l \in ButtonRuns : ButtonFinishedEvent(l)

\* Executions of the button; the runners and the ProcessManager are left as
\* constructed.
ButtonInit ==
    /\ Constructed
    /\ ~DETACHED_MODE
    /\ rtype[2] = "DefaultRunner"
    /\ rgame[2] = "g1"
    /\ game_data = { GameConfigs[c] : c \in ConfigIds }
    /\ ButtonConstructed

ButtonSpec == ButtonInit /\ [][ButtonNext]_vars

\* The event loop keeps running, so a QProcess whose process has ended
\* eventually emits finished.
ButtonFairness == \A l \in ButtonRuns : WF_vars(ButtonFinishedEvent(l))

FairButtonSpec == ButtonInit /\ [][ButtonNext]_vars /\ ButtonFairness

(* ------------------------------ claims --------------------------------- *)

TerminalSignals == {"game_stopped", "error_occurred"}

LaunchSignals == {"game_started", "error_occurred"}

Made(p) == runs[p].runner # None

RECURSIVE CountName(_, _)
CountName(sigs, name) ==
    IF sigs = << >> THEN 0
    ELSE (IF Head(sigs).name = name THEN 1 ELSE 0) + CountName(Tail(sigs), name)

HasSignal(p, names) == \E i \in 1..Len(runs[p].sigs) : runs[p].sigs[i].name \in names

\* C1: add_process(r2) while an entry for r2's game id exists leaves the
\* registry and the subscriptions unchanged: the first registration wins
\* and r2 receives no subscription.
C1_FirstRegistrationWins ==
    [][\A r \in Runners :
          (ret'.op = "add_process" /\ ret'.r = r /\ processes[GameId(r)] # None)
          => (processes' = processes /\ subs' = subs)]_vars

\* r2 was offered while r1 holds the entry of their game
C1_Witness ==
    /\ ret.op = "add_process"
    /\ ret.r = 2
    /\ rgame[2] = rgame[1]
    /\ get_runner(Cur, GameId(2)) = 1
    /\ subs[2] = 0

\* C2: when a runner that add_process registered emits error_occurred or
\* game_stopped, the entry of its game id is gone in the state right after
\* the emission, without any remove_process call.
C2_TerminalSignalRemovesEntry ==
    [][\A p \in Runs :
          LET r == runs'[p].runner
          IN  ( /\ r # None
                /\ subs[r] > 0
                /\ \E i \in (Len(runs[p].sigs) + 1)..Len(runs'[p].sigs) :
                      runs'[p].sigs[i].name \in TerminalSignals )
              => processes'[GameId(r)] = None]_vars

\* a registered runner's last signal is a terminal one and the entry is gone
C2_Witness ==
    \E p \in Runs :
        /\ Made(p)
        /\ subs[runs[p].runner] > 0
        /\ ret.op = "other"
        /\ runs[p].sigs # << >>
        /\ runs[p].sigs[Len(runs[p].sigs)].name \in TerminalSignals
        /\ get_runner(Cur, GameId(runs[p].runner)) = None

\* the last run_game call of runner r, 0 when it was never run
LatestRun(r) ==
    IF \E p \in Runs : runs[p].runner = r
    THEN CHOOSE p \in Runs :
            /\ runs[p].runner = r
            /\ \A q \in Runs : runs[q].runner = r => q <= p
    ELSE 0

ReachedTerminal(r) ==
    LatestRun(r) # 0 /\ HasSignal(LatestRun(r), TerminalSignals)

\* C3: every game id in the registry maps to a runner that can stop and that
\* has not emitted game_stopped or error_occurred for its run.
C3_RegistryInvariant ==
    \A g \in Games :
        processes[g] # None =>
            /\ can_stop(processes[g])
            /\ ~ReachedTerminal(processes[g])

\* C4: every run_game call emits exactly one launch-outcome signal before it
\* returns.
C4_OneLaunchOutcome ==
    \A p \in Runs : Made(p) => runs[p].nLaunch = 1

\* C5: after game_started, a run emits at most one terminal signal
\* (game_stopped plus error_occurred emissions).
C5_AtMostOneTerminal ==
    \A p \in Runs :
        (runs[p].sigs # << >> /\ runs[p].sigs[1].name = "game_started")
        => CountName(runs[p].sigs, "game_stopped")
             + CountName(runs[p].sigs, "error_occurred") <= 1

\* C6: every game_stopped of a run comes after the launch-outcome signal of
\* the run_game call that made the run.
C6_StartedPrecedesStopped ==
    \A p \in Runs :
        \A i \in 1..Len(runs[p].sigs) :
            runs[p].sigs[i].name = "game_stopped"
            => /\ runs[p].nLaunch >= 1
               /\ i > runs[p].nLaunch
               /\ runs[p].sigs[1].name \in LaunchSignals

\* a run emitted game_stopped
C6_Witness ==
    \E p \in Runs : Made(p) /\ HasSignal(p, {"game_stopped"})

\* C7: a managed runner whose process is running when stop_game() is called
\* reaches the terminated state and emits game_stopped exactly once for that
\* process: game_stopped is never emitted twice for one process, the handle
\* is cleared and is_running() is false when it is emitted, and every process
\* that was sent terminate eventually is not running with its game_stopped
\* emitted.
C7_StopReachesTerminated ==
    /\ [](\A p \in Runs : CountName(runs[p].sigs, "game_stopped") <= 1)
    /\ [][\A p \in Runs :
             CountName(runs'[p].sigs, "game_stopped") > CountName(runs[p].sigs, "game_stopped")
             => /\ handle'[runs'[p].runner] = None
                /\ runs'[p].qstate = "NotRunning"]_vars
    /\ \A p \in Runs :
          runs[p].terminateSent
          ~> (runs[p].qstate = "NotRunning" /\ CountName(runs[p].sigs, "game_stopped") = 1)

\* stop_game() was called on a running process, which has ended since
C7_Witness ==
    \E p \in Runs :
        /\ runs[p].terminateSent
        /\ runs[p].qstate = "NotRunning"
        /\ HasSignal(p, {"game_stopped"})
        /\ handle[runs[p].runner] = None

\* C8: a process that has not exited when the kill timeout elapses after
\* terminate is sent kill by stop_game(), and a process that was sent kill
\* eventually is not running with game_stopped emitted.
C8_KilledReachesTerminated ==
    /\ [](\A p \in Runs :
             (runs[p].terminateSent /\ runs[p].qstate = "Running") => runs[p].killSent)
    /\ \A p \in Runs :
          runs[p].killSent
          ~> (runs[p].qstate = "NotRunning" /\ HasSignal(p, {"game_stopped"}))

\* a process that was sent kill has ended and its game_stopped was emitted
C8_Witness ==
    \E p \in Runs :
        /\ runs[p].killSent
        /\ runs[p].qstate = "NotRunning"
        /\ HasSignal(p, {"game_stopped"})

C10_StopFailsSilently ==
    [][\A r \in Runners :
          (ret'.op = "stop_game" /\ ret'.r = r)
          => /\ ret'.val = Bool(RunnerType(r) = "DefaultRunner" /\ ProcessRunning(Cur, r))
             /\ ret'.val # "True" => runs' = runs]_vars

\* the QProcess of run p was started and the OS never confirmed a process
SpawnFailed(p) ==
    /\ Made(p)
    /\ runs[p].oscall = "start"
    /\ ~runs[p].alive
    /\ runs[p].exitStatus = "none"

\* C11: a run_game call of a managed DefaultRunner whose spawn fails emits
\* error_occurred before it returns and never game_started, its QProcess is
\* never in state Running, and is_running() of the runner is false from the
\* call on (until the runner is run again).
C11_SpawnFailureNeverRunning ==
    \A p \in Runs :
        SpawnFailed(p) =>
            /\ RunnerType(runs[p].runner) = "DefaultRunner"
            /\ runs[p].nLaunch >= 1
            /\ \A i \in 1..Len(runs[p].sigs) : runs[p].sigs[i].name = "error_occurred"
            /\ runs[p].qstate = "NotRunning"
            /\ LatestRun(runs[p].runner) = p => is_running(Cur, runs[p].runner) = "False"

\* a spawn failed on a runner whose earlier process is still running
C11_Witness ==
    \E p, q \in Runs :
        /\ SpawnFailed(p)
        /\ q < p
        /\ runs[q].runner = runs[p].runner
        /\ runs[q].qstate = "Running"
        /\ handle[runs[p].runner] = p

\* the run_game calls made on DefaultRunners
DefaultRuns == { p \in Runs : Made(p) /\ RunnerType(runs[p].runner) = "DefaultRunner" }

\* C12: for a game whose executablePath and launchOptions are both empty,
\* PlayButton._create_command raises ValueError, and every run_game call of a
\* DefaultRunner emits error_occurred as its only signal, without creating a
\* QProcess, without any OS call and without game_started.
C12_EmptySpecFailsBeforeSpawn ==
    \A g \in game_data :
        (g.executablePath = EmptyStr /\ g.launchOptions = EmptyStr) =>
            /\ ~PlayButton_create_command(g.executablePath, g.launchOptions).ok
            /\ \A p \in DefaultRuns :
                  /\ runs[p].sigs = << [name |-> "error_occurred",
                                        arg  |-> "No valid command provided to run the game."] >>
                  /\ runs[p].nLaunch = 1
                  /\ runs[p].qstate = "NoProcess"
                  /\ runs[p].oscall = "none"
                  /\ handle[runs[p].runner] = None

\* a DefaultRunner was run on a game with a working directory and neither a
\* target nor launch options
C12_Witness ==
    /\ game_data = { [executablePath   |-> EmptyStr,
                      launchOptions    |-> EmptyStr,
                      workingDirectory |-> << "/", "w" >>] }
    /\ DefaultRuns # {}

\* every runner of game id g is one that cannot stop
OnlyNonStoppable(g) == \A r \in Runners : GameId(r) = g => ~can_stop(r)

\* C13: add_process(r) for a runner whose can_stop() is false changes neither
\* the registry nor the subscriptions; such a runner never holds an entry and
\* never has a subscription, whether or not it was run; and for a game id
\* whose runners all cannot stop, get_runner(id) is None and
\* ProcessManager.is_running(id) returns False in every state.
C13_NonStoppableNeverTracked ==
    /\ [][\A r \in Runners :
             (ret'.op = "add_process" /\ ret'.r = r /\ ~can_stop(r))
             => (processes' = processes /\ subs' = subs)]_vars
    /\ [](\A r \in Runners :
             ~can_stop(r) => /\ subs[r] = 0
                             /\ \A g \in Games : processes[g] # r)
    /\ [](\A g \in Games :
             OnlyNonStoppable(g) => /\ get_runner(Cur, g) = None
                                    /\ pm_is_running(Cur, g) = "False")

\* add_process was called on a runner that cannot stop and that has started
\* its game, the only runners of the game id being ones that cannot stop
C13_Witness ==
    /\ ret.op = "add_process"
    /\ ~can_stop(ret.r)
    /\ OnlyNonStoppable(GameId(ret.r))
    /\ \E p \in Runs : runs[p].runner = ret.r /\ HasSignal(p, {"game_started"})

\* C14: is_running() returns False, without raising, on every runner that
\* cannot stop (DefaultRunner in detached mode, WebLinkRunner), in every
\* state: before run_game, after a run_game that started the game and after
\* one that failed.
C14_NonStoppableNotRunning ==
    \A r \in Runners : ~can_stop(r) => is_running(Cur, r) = "False"

\* run p emits error_occurred or game_stopped in the step
EmitsTerminal(p) ==
    \E i \in (Len(runs[p].sigs) + 1)..Len(runs'[p].sigs) :
        runs'[p].sigs[i].name \in TerminalSignals

\* C15: a step in which a runner emits error_occurred or game_stopped leaves
\* every other runner as it was (its process handle, its subscriptions and
\* its runs) and leaves every registry entry held by another runner in
\* place: only the entry of the emitting runner itself can go.
C15_SignalsAreLocal ==
    [][\A p \in Runs :
          EmitsTerminal(p) =>
              LET r == runs'[p].runner
              IN  /\ \A r2 \in Runners \ {r} :
                        /\ handle'[r2] = handle[r2]
                        /\ subs'[r2] = subs[r2]
                        /\ \A q \in Runs : runs[q].runner = r2 => runs'[q] = runs[q]
                  /\ \A g \in Games :
                        processes[g] \notin {None, r} => processes'[g] = processes[g]]_vars

\* the run_game calls made on WebLinkRunners
WebRuns == { p \in Runs : Made(p) /\ RunnerType(runs[p].runner) = "WebLinkRunner" }

\* the targets of LaunchTargets that, surrounding whitespace aside, begin
\* with an http or https scheme in some letter case
HttpTargets ==
    { << " ", "H", "t", "t", "p", ":", "/", "/", "a" >>,
      << "h", "t", "t", "p", "s", ":", "/", "/", "a" >>,
      << "H", "T", "T", "P", "S", ":", "/", "/", "A", "\n" >> }

\* C16: run_game of a WebLinkRunner on a target without an http or https
\* scheme emits error_occurred as its only signal, calls webbrowser.open not
\* at all and never emits game_started; on a target with an http or https
\* scheme in any letter case the validation passes and webbrowser.open is
\* called.
C16_InvalidUrlFailsAtOnce ==
    \A g \in game_data, p \in WebRuns :
        IF g.executablePath \in HttpTargets
        THEN /\ _validate_url(g.executablePath)
             /\ runs[p].oscall = "webbrowser.open"
             /\ runs[p].nLaunch = 1
        ELSE /\ runs[p].sigs = << [name |-> "error_occurred", arg |-> "Invalid URL"] >>
             /\ runs[p].nLaunch = 1
             /\ runs[p].oscall = "none"

\* a WebLinkRunner was run on a target with a malformed scheme
C16_Witness ==
    /\ WebRuns # {}
    /\ \E g \in game_data : g.executablePath = << "h", "t", "t", "p", ":", "/", "a" >>

NoWorkingDirectory ==
    [name |-> "error_occurred", arg |-> "No working directory could be determined."]

\* C17: in a run_game call of a DefaultRunner whose command is not empty, a
\* non-empty workingDirectory is the working directory; without one, when
\* the first token of the command is an existing regular file, the working
\* directory is the directory part of that token; in both cases the process
\* is started without a NoWorkingDirectory error.  Otherwise the call emits
\* that error as its only signal and starts no process.
C17_WorkingDirectoryResolution ==
    \A g \in game_data, p \in DefaultRuns :
        LET cc == _create_command(g.executablePath, g.launchOptions)
        IN  (cc.ok /\ cc.command # << >>) =>
                IF g.workingDirectory # EmptyStr \/ isfile(cc.command[1])
                THEN /\ WorkingDir(g, cc.command[1]) =
                           IF g.workingDirectory # EmptyStr
                           THEN g.workingDirectory
                           ELSE Dirname(cc.command[1])
                     /\ runs[p].oscall # "none"
                     /\ \A i \in 1..Len(runs[p].sigs) : runs[p].sigs[i] # NoWorkingDirectory
                ELSE /\ runs[p].sigs = << NoWorkingDirectory >>
                     /\ runs[p].oscall = "none"
                     /\ runs[p].qstate = "NoProcess"

\* C18: _create_command(target, launch_options) returns a command exactly
\* when the launch options can be tokenised.  With a non-empty target the
\* command is the target followed by the tokens of the launch options in
\* order (the target alone when there are none); with an empty target and
\* non-empty launch options it is the tokens of the launch options; with
\* both empty it is empty.  Tokens follow the quoting rules: "x x" has the
\* tokens x and x, and a quoted blank is one token.  A run_game call creates
\* a process only for a command that was built and is not empty.
C18_CommandConstruction ==
    \A g \in game_data :
        LET t  == g.executablePath
            o  == g.launchOptions
            cc == _create_command(t, o)
            tk == ShlexSplit(o)
        IN  /\ cc.ok = tk.ok
            /\ cc.ok => cc.command = IF t # EmptyStr THEN << t >> \o tk.tokens
                                                      ELSE tk.tokens
            /\ (t # EmptyStr /\ cc.ok) => /\ cc.command[1] = t
                                           /\ Len(cc.command) = 1 + Len(tk.tokens)
            /\ (t # EmptyStr /\ o = EmptyStr) => cc.command = << t >>
            /\ (t = EmptyStr /\ o = EmptyStr) => cc.command = << >>
            /\ o = << "x", " ", "x" >> => tk.tokens = << << "x" >>, << "x" >> >>
            /\ o = << "'", " ", "'" >> => tk.tokens = << << " " >> >>
            /\ \A p \in DefaultRuns :
                  runs[p].qstate # "NoProcess" => (cc.ok /\ cc.command # << >>)

\* a DefaultRunner started a process for a game without a target, from a
\* command that is the two tokens of its launch options
C18_Witness ==
    /\ game_data = { [executablePath   |-> EmptyStr,
                      launchOptions    |-> << "x", " ", "x" >>,
                      workingDirectory |-> << "/", "w" >>] }
    /\ \E p \in DefaultRuns : runs[p].oscall # "none"

\* C19: ProcessManager.is_running(id) is False for an untracked id and is
\* the registered runner's is_running() for a tracked one, never an
\* exception.  A ProcessManager.stop_game(id) step on an untracked id
\* changes nothing: registry, subscriptions, process handles and runs stay
\* as they are.  On a tracked id the step is a stop_game() call of the
\* registered runner, which returns without raising, and it leaves the
\* handles and runs of every other runner alone.
C19_UntrackedIsNoOp ==
    /\ [](\A g \in Games :
             /\ processes[g] = None => pm_is_running(Cur, g) = "False"
             /\ processes[g] # None =>
                   /\ pm_is_running(Cur, g) = is_running(Cur, processes[g])
                   /\ pm_is_running(Cur, g) \in {"True", "False"})
    /\ [][ret'.op = "pm_stop_game" =>
             IF ret'.r = None
             THEN UNCHANGED << processes, subs, handle, runs, nruns >>
             ELSE /\ \E g \in Games : processes[g] = ret'.r
                  /\ \E delay \in ExitDelays, out \in ExitOutcomes :
                        LET res == StopGame(Cur, ret'.r, delay, out)
                        IN  /\ res.val \in {"True", "False"}
                            /\ processes' = res.s.processes
                            /\ subs' = res.s.subs
                            /\ handle' = res.s.handle
                            /\ runs' = res.s.runs
                  /\ \A r2 \in Runners \ {ret'.r} :
                        /\ handle'[r2] = handle[r2]
                        /\ \A q \in Runs : runs[q].runner = r2 => runs'[q] = runs[q]]_vars

\* ProcessManager.stop_game was called while no game id is tracked and the
\* process of a runner is running; the process still runs
C19_Witness ==
    /\ ret.op = "pm_stop_game"
    /\ ret.r = None
    /\ \A g \in Games : processes[g] = None
    /\ \E r \in Runners : ProcessRunning(Cur, r) /\ ~runs[handle[r]].terminateSent

\* C20: remove_process(id) leaves no entry for id, changes nothing when id
\* is not tracked, gives the same registry when it is called a second time
\* and never touches the entry of another id.  A step in which a registered
\* runner emits terminal signals, also both error_occurred and game_stopped
\* for one process, leaves the registry as one remove_process(id) call does.
C20_RemoveIsIdempotent ==
    /\ [](\A g \in Games :
             LET once == remove_process(processes, g)
             IN  /\ once[g] = None
                 /\ remove_process(once, g) = once
                 /\ processes[g] = None => once = processes
                 /\ \A g2 \in Games \ {g} : once[g2] = processes[g2])
    /\ [][\A p \in Runs :
             (EmitsTerminal(p) /\ subs[runs'[p].runner] > 0)
             => processes' = remove_process(processes, GameId(runs'[p].runner))]_vars

\* a registered runner emitted error_occurred and game_stopped for one
\* process; its entry is gone and the entry of the other game id is there
C20_Witness ==
    \E p \in Runs :
        /\ Made(p)
        /\ subs[runs[p].runner] > 0
        /\ CountSig(runs[p].sigs, "error_occurred", error_map("Crashed")) = 1
        /\ HasSignal(p, {"game_stopped"})
        /\ processes[GameId(runs[p].runner)] = None
        /\ \E g \in Games : processes[g] # None

\* the program state after the step
CurNext == [processes |-> processes', subs |-> subs', handle |-> handle', runs |-> runs']

\* run p emits game_stopped in the step
EmitsStopped(p) ==
    CountName(runs'[p].sigs, "game_stopped") > CountName(runs[p].sigs, "game_stopped")

\* C24: when the process of a managed DefaultRunner that was not asked to
\* stop is found to have ended, the runner emits game_stopped with the exit
\* code of that process as its last signal; after the step the process
\* handle is cleared, is_running() is false, and stop_game() returns False
\* without sending anything to a process.
C24_SelfExitEmitsStopped ==
    [][\A p \in Runs :
          (EmitsStopped(p) /\ ~runs'[p].terminateSent) =>
              LET r == runs'[p].runner
                  n == Len(runs'[p].sigs)
              IN  /\ runs'[p].sigs[n] = [name |-> "game_stopped", arg |-> runs[p].exitCode]
                  /\ runs'[p].qstate = "NotRunning"
                  /\ handle'[r] = None
                  /\ is_running(CurNext, r) = "False"
                  /\ \A delay \in ExitDelays, out \in ExitOutcomes :
                        /\ StopGame(CurNext, r, delay, out).val = "False"
                        /\ StopGame(CurNext, r, delay, out).s = CurNext]_vars

\* a process that nobody asked to stop ended with exit code 1 and its
\* game_stopped(1) was emitted
C24_Witness ==
    \E p \in Runs :
        /\ Made(p)
        /\ ~runs[p].terminateSent
        /\ runs[p].exitCode = 1
        /\ CountSig(runs[p].sigs, "game_stopped", 1) = 1
        /\ handle[runs[p].runner] = None

\* C25: whenever a process spawned by a managed DefaultRunner is alive, the
\* runner holds the handle of that process and is_running() is true.
C25_LiveProcessKeepsHandle ==
    \A p \in Runs :
        (Made(p) /\ runs[p].alive) =>
            /\ handle[runs[p].runner] = p
            /\ is_running(Cur, runs[p].runner) = "True"

\* C26: a step in which a runner emits error_occurred or game_stopped does
\* not remove the registry entry of a runner whose process is still running
\* after the step: for that game id ProcessManager.is_running stays true.
C26_TrackedWhileAlive ==
    [][\A p \in Runs, g \in Games :
          ( /\ EmitsTerminal(p)
            /\ processes[g] # None
            /\ ProcessRunning(CurNext, processes[g]) )
          => /\ processes'[g] = processes[g]
             /\ pm_is_running(CurNext, g) = "True"]_vars

(* ------------------------------ stopping ------------------------------- *)

\* a game with an executable, as the button shows it
StopGames == { info \in ButtonGames : info.executablePath = FilePath }

\* Executions in which the managed DefaultRunner 2 is run and stopped and
\* the title bar's button is clicked, with processes that end on their own,
\* on terminate, or not within the kill timeout.
StopInit ==
    /\ Constructed
    /\ ~DETACHED_MODE
    /\ rtype = [r \in Runners |-> "DefaultRunner"]
    /\ rgame = [r \in Runners |-> "g1"]
    /\ game_data = { GameConfigs[c] : c \in ConfigIds }
    /\ ButtonUnused

StopNext ==
    \/ nruns < MaxLaunches /\ RunGameCall(2)
    \/ StopGameCall(2)
    \/ \E p \in Runs : ProcessExits(p)
    \/ \E p \in Runs : ProcessFinishedEvent(p)
    \/ \E info \in StopGames : UpdateGameInfo(info)
    \/ MousePress
    \/ \E l \in ButtonRuns : ButtonProcessExits(l)
    \/ \E l \in ButtonRuns : ButtonFinishedEvent(l)

StopSpec == StopInit /\ [][StopNext]_vars

\* a stop call sent kill to process x: it had sent terminate, and the
\* process was alive before the call and is still alive after it, so the
\* whole kill timeout went by without the process exiting
KillAfterTimeout(x, xNext) ==
    /\ xNext.terminateSent
    /\ x.qstate = "Running" /\ x.alive
    /\ xNext.qstate = "Running" /\ xNext.alive

\* process x exits in the step
ExitsInStep(x, xNext) == x.alive /\ ~xNext.alive

\* C23: kill is sent only by a stop request, after terminate and a whole
\* kill timeout in which the process did not exit; a process that exits
\* within the kill timeout is not sent kill; kill is never sent without
\* terminate.  For DefaultRunner.stop_game and PlayButton._stop_process.
C23_KillOnlyAfterTerminateAndTimeout ==
    /\ [](\A p \in Runs : runs[p].killSent => runs[p].terminateSent)
    /\ [](\A l \in ButtonRuns : launches[l].killSent => launches[l].terminateSent)
    /\ [][\A p \in Runs :
            /\ (~runs[p].killSent /\ runs'[p].killSent) =>
                   /\ ret'.op = "stop_game"
                   /\ ret'.p = p
                   /\ ret'.val = "True"
                   /\ KillAfterTimeout(runs[p], runs'[p])
            /\ ExitsInStep(runs[p], runs'[p]) => runs'[p].killSent = runs[p].killSent
            /\ (~runs[p].terminateSent /\ runs'[p].terminateSent) =>
                   ret'.op = "stop_game" /\ ret'.p = p]_vars
    /\ [][\A l \in ButtonRuns :
            /\ (~launches[l].killSent /\ launches'[l].killSent) =>
                   /\ press' = "stop"
                   /\ button_processes[game_info.id] = l
                   /\ KillAfterTimeout(launches[l], launches'[l])
            /\ ExitsInStep(launches[l], launches'[l]) =>
                   launches'[l].killSent = launches[l].killSent
            /\ (~launches[l].terminateSent /\ launches'[l].terminateSent) =>
                   press' = "stop" /\ button_processes[game_info.id] = l]_vars

\* both stop protocols have run both ways: a process of the runner and one
\* of the button were sent terminate and kill, and a process of each was
\* sent terminate, exited within the timeout and was not sent kill
C23_Witness ==
    /\ \E p \in Runs : runs[p].terminateSent /\ runs[p].killSent
    /\ \E l \in ButtonRuns : launches[l].terminateSent /\ launches[l].killSent
    /\ \E l \in ButtonRuns :
          /\ launches[l].terminateSent /\ ~launches[l].killSent
          /\ launches[l].qstate = "NotRunning"

(* ------------------------- claims on the PlayButton -------------------- *)

\* the _run_process calls made so far
Launched == 1..nlaunches

\* C21: the last-played update is invoked exactly once for every launch
\* whose spawn succeeded.
C21_UpdatedOncePerSpawn ==
    \A l \in Launched :
        launches[l].spawn = "ok" => launches[l].lastPlayed = 1

\* C22 as stated: a launch whose spawn failed has still invoked the
\* last-played update.
C22_FailedSpawnStillUpdates ==
    \A l \in Launched :
        launches[l].spawn = "failed" => launches[l].lastPlayed >= 1

\* C22, amended: a launch whose process was not started (the spawn failed,
\* or the command was empty) has not invoked the last-played update, and no
\* later step invokes it for that launch.
C22_FailedSpawnNeverUpdates ==
    \A l \in Launched :
        launches[l].spawn # "ok" => launches[l].lastPlayed = 0

\* a launch through a button whose manager has update_last_played, with a
\* spawn that failed, and no update
C22_Witness ==
    \E l \in Launched :
        /\ HasUpdateLastPlayed(game_list_manager)
        /\ launches[l].spawn = "failed"
        /\ launches[l].lastPlayed = 0
        /\ press = "run"

\* launch l is made in the step and its process is started
SpawnsInStep(l) == launches[l].spawn = "none" /\ launches'[l].spawn = "ok"

\* C27: in a non-detached button every process that was started and has not
\* been reported finished is the tracked entry of its game id, so at most
\* one per game id; a click while the shown game id is in _processes takes
\* the stop path and starts nothing; no process is started for a game id
\* that is tracked.
C27_OneTrackedProcessPerGame ==
    /\ [](~button_detached =>
            \A l \in ButtonRuns :
                (launches[l].qstate = "Running" \/ launches[l].alive) =>
                    button_processes[launches[l].game] = l)
    /\ [][(~button_detached /\ Tracked(CurButton, game_info.id) /\ press' # "other") =>
            /\ press' = "stop"
            /\ nlaunches' = nlaunches
            /\ \A l \in ButtonRuns :
                  /\ launches'[l].game = launches[l].game
                  /\ launches'[l].spawn = launches[l].spawn]_vars
    /\ [][\A l \in ButtonRuns :
            (~button_detached /\ SpawnsInStep(l)) =>
                ~Tracked(CurButton, launches'[l].game)]_vars

\* a click on the Stop button of a game whose process outlived the kill
\* timeout: the process is still tracked and running, and no second launch
\* was made
C27_Witness ==
    /\ ~button_detached
    /\ press = "stop"
    /\ nlaunches = 1
    /\ launches[1].killSent /\ launches[1].alive
    /\ button_processes[game_info.id] = 1
    /\ label = "Stop"

\* launch l is the entry of its game id in _processes
Entry(l) == launches[l].game \in Games /\ button_processes[launches[l].game] = l

\* C28: with the finished event delivered, an entry of _processes whose
\* process has ended is eventually removed; the button shows Stop only for
\* a game whose entry is there with a QProcess that has not reported its
\* end; once the entry is gone a game with an executable shows Play and a
\* click launches it.
C28_EndedEntryIsRemoved ==
    /\ \A l \in ButtonRuns : (Entry(l) /\ ~launches[l].alive) ~> ~Entry(l)
    /\ [](label = "Stop" =>
            /\ Tracked(CurButton, game_info.id)
            /\ launches[button_processes[game_info.id]].qstate = "Running")
    /\ []((~Tracked(CurButton, game_info.id) /\ game_info.executablePath = FilePath) =>
            /\ label = "Play"
            /\ PressBranch(CurButton) = "run")

\* the process of a first launch was stopped and its entry removed, and the
\* same game was launched again from the button
C28_Witness ==
    /\ nlaunches = 2
    /\ launches[1].terminateSent
    /\ launches[1].qstate = "NotRunning"
    /\ launches[2].game = launches[1].game
    /\ launches[2].spawn = "ok"
    /\ Entry(2)
    /\ label = "Stop"


====
